---- MODULE Spec2Model ----
(***************************************************************************)
(* Model of the initiatives module of initiatives.socis.ca: the tRPC       *)
(* initiativesRouter (three versions of it live in lib/server: a throwing  *)
(* one, an envelope one, and an envelope one whose create accepts a client *)
(* id), the Prisma accessors it calls, the zod input schemas and the       *)
(* permission predicate.                                                   *)
(*                                                                         *)
(* A request is handled in the steps the async handler is cut into by its  *)
(* awaits: Begin (tRPC parses the input with the zod schema), Lookup (the  *)
(* user query and the synchronous code up to the next await), the          *)
(* initiative query with the code up to the return, and Return (the        *)
(* response leaves). Requests of different slots interleave between these  *)
(* steps.                                                                  *)
(*                                                                         *)
(* null / undefined / an absent optional field is the empty set, a present *)
(* value v is {v}.                                                         *)
(*                                                                         *)
(* Beside the router the module has the parts the router rests on or that  *)
(* call it: the generic table accessors and the process-wide Prisma client *)
(* they share, the user reads outside the router (the secure listing, the  *)
(* NextAuth session callback), the session-token cookie configuration, and *)
(* the browser side (the create and update pages, the delete button, the   *)
(* initiative card with its delete modal) with its React state, and the    *)
(* form validator on names and descriptions of every length around the     *)
(* limits. Each part has a specification of its own in which the other     *)
(* parts stay at rest.                                                     *)
(***************************************************************************)
EXTENDS Integers, Sequences, FiniteSets, TLC

\* ------------------------------------------------------------------ bounds
NumSlots == 2
MaxCalls == 3
MaxPerms == 2
MaxHost == 5
MaxName == 52
MaxDescription == 102

Slots == 1..NumSlots

\* ------------------------------------------------------- program constants
ConfigMaxName == 50
ConfigMaxDescription == 100
ConfigMinName == 1
ConfigMinDescription == 1
ConfigDefaultImage == "/images/default-initiative-image.png"

\* Permission.ADMIN (the enum lives in @/types/permission)
ADMIN == "admin"

\* uuidv4(): the n-th identifier the generator hands out
Uuid(n) == "uuid-" \o ToString(n)

TheOne(s) == CHOOSE x \in s : TRUE

\* ------------------------------------------------------------------ inputs
Name1 == "H"
Name50 == "Hack Club Hack Club Hack Club Hack Club Hack Club."
Name51 == "Hack Club Hack Club Hack Club Hack Club Hack Club.."
Desc1 == "W"
Desc100 ==
  "Weekly hackathons Weekly hackathons Weekly hackathons Weekly hackathons Weekly hackathons Weekly hac"
Desc101 ==
  "Weekly hackathons Weekly hackathons Weekly hackathons Weekly hackathons Weekly hackathons Weekly hack"
CustomImage == "/images/custom.png"

Variants == {"throw", "envelope", "envelopeId"}
Ops == {"createInitiative", "deleteInitiative", "updateInitiative",
        "getAllInitiatives", "getInitiative"}
Mutating == {"createInitiative", "deleteInitiative", "updateInitiative"}
Tokens == {"secret-admin", "secret-member", "secret-none"}

\* name/description pairs a client submits: corners of the valid range that
\* differ in one field, and one pair off each edge of the range
RichData ==
  { <<Name1, Desc1>>, <<Name1, Desc100>>, <<Name50, Desc100>>,
    <<"", Desc1>>, <<Name51, Desc100>>, <<Name1, "">>, <<Name50, Desc101>> }
SmallData == { <<Name50, Desc100>>, <<Name51, Desc100>> }

DataOf(conc) == IF conc THEN SmallData ELSE RichData
ImagesOf(conc) == IF conc THEN {{}} ELSE {{}, {""}, {CustomImage}}
CreateIdsOf(conc) == IF conc THEN {{}, {"c1"}} ELSE {{}, {""}, {"c1"}}
TargetIdsOf(conc) == IF conc THEN {"c1"} ELSE {"c1", Uuid(1)}
\* the read procedures take no accessToken; a client may still send one
ReaderTokensOf(conc) == IF conc THEN {"secret-none"} ELSE Tokens

PermissionNames == {"default", ADMIN, "moderator"}
PermissionLists == UNION { [1..n -> PermissionNames] : n \in 0..MaxPerms }

\* what a client can put on the wire for each procedure (fields a procedure
\* has no use for are left absent)
RawInputs(op, conc) ==
  CASE op = "createInitiative" ->
         { [accessToken |-> t, id |-> i, name |-> d[1], description |-> d[2],
            image |-> im] :
           t \in Tokens, i \in CreateIdsOf(conc), d \in DataOf(conc),
           im \in ImagesOf(conc) }
    [] op = "updateInitiative" ->
         { [accessToken |-> t, id |-> {i}, name |-> d[1], description |-> d[2],
            image |-> im] :
           t \in Tokens, i \in TargetIdsOf(conc), d \in DataOf(conc),
           im \in ImagesOf(conc) }
    [] op = "deleteInitiative" ->
         { [accessToken |-> t, id |-> {i}, name |-> "", description |-> "",
            image |-> {}] : t \in Tokens, i \in TargetIdsOf(conc) }
    [] op = "getInitiative" ->
         { [accessToken |-> t, id |-> {i}, name |-> "", description |-> "",
            image |-> {}] :
           t \in ReaderTokensOf(conc), i \in TargetIdsOf(conc) }
    [] OTHER ->
         { [accessToken |-> t, id |-> {}, name |-> "", description |-> "",
            image |-> {}] : t \in ReaderTokensOf(conc) }

\* ------------------------------------------------------------------- state
VARIABLES
  variant,      \* which version of initiativesRouter is deployed
  concurrent,   \* whether requests overlap (then they draw on fewer inputs)
  users,        \* the User table
  initiatives,  \* the Initiative table
  dbUp,         \* whether a query on the global client succeeds
  req,          \* per slot: the request in flight
  nextUuid,     \* how many uuids were generated
  calls,        \* how many requests, user reads and outages were started
  lastCreate,   \* history: the input of each successful create not yet
                \* followed by a successful update or delete of its id
  permArgs,     \* the arguments of a stand-alone hasPermissions call
  permResult,   \* and its result ({} before the call)
  globalPrisma, \* globalThis.prisma: empty, or the client instance it holds
  instances,    \* how many Prisma clients were constructed in the process
  acc,          \* the last call of a generic table accessor
  userRead,     \* the last user read outside the router (listing, session)
  env,          \* process.env as the NextAuth module reads it
  cookie,       \* the sessionToken cookie configuration ({} before it is built)
  client        \* the browser side: one page or button and its React state

\* the state outside the request handlers: the process-wide client slot and
\* the generic accessors, the user reads, the cookie configuration, the pages
sideVars == <<globalPrisma, instances, acc, userRead, env, cookie, client>>

vars == <<variant, concurrent, users, initiatives, dbUp, req, nextUuid, calls,
          lastCreate, permArgs, permResult, sideVars>>

\* ------------------------------------------------------- input validation
\* (mutant) the schema without its .min()
ZodStringNoMin(s, min, max) == Len(s) <= max

\* z.string().max(max).min(min)
ZodString(s, min, max) == Len(s) <= max /\ Len(s) >= min

\* (mutant) the name schema without its .max()
NameSchemaNoMax(name) == Len(name) >= ConfigMinName

NameSchema(name) == ZodString(name, ConfigMinName, ConfigMaxName)

DescriptionSchema(description) ==
  ZodString(description, ConfigMinDescription, ConfigMaxDescription)

\* whether the input schema of procedure op accepts raw
SchemaAccepts(op, raw) ==
  CASE op = "createInitiative" ->
         NameSchema(raw.name) /\ DescriptionSchema(raw.description)
    [] op = "updateInitiative" ->
         /\ raw.id # {}
         /\ NameSchema(raw.name) /\ DescriptionSchema(raw.description)
    [] op \in {"deleteInitiative", "getInitiative"} -> raw.id # {}
    [] OTHER -> TRUE

\* (mutant) every procedure takes an accessToken and resolves its caller
AuthenticatedAll(op) == TRUE

\* the procedures whose schema names accessToken and whose handler resolves
\* and authorizes the caller: create, delete, update, not the two reads
Authenticated(op) == op \in Mutating

\* the parsed input the handler receives: z.object strips the keys the
\* schema does not name (the read procedures name no accessToken, and only
\* the last version of createInitiative names initiative.id)
Parsed(v, op, raw) ==
  [accessToken |-> IF Authenticated(op) THEN {raw.accessToken} ELSE {},
   id          |-> IF op = "createInitiative" /\ v # "envelopeId"
                   THEN {} ELSE raw.id,
   name        |-> raw.name,
   description |-> raw.description,
   image       |-> raw.image]

\* -------------------------------------------------------------- responses
Response(type, success, initiative, list, message) ==
  [type |-> type, success |-> success, initiative |-> initiative,
   initiatives |-> list, message |-> message]

\* tRPC answers an input the schema rejects itself; the handler never runs
BadRequest == Response("error", {}, {}, {}, "BAD_REQUEST")

\* (mutant) envelope routers that throw on a failure as the first one does
FailureAlwaysThrows(v, msg) == Response("error", {}, {}, {}, msg)

\* (mutant) envelope routers whose failure envelope names its reason
FailureWithReason(v, msg) ==
  IF v = "throw" THEN Response("error", {}, {}, {}, msg)
  ELSE Response("data", {FALSE}, {}, {}, msg)

\* (mutant) envelope routers whose failure envelope says success: true
FailureReportsSuccess(v, msg) ==
  IF v = "throw" THEN Response("error", {}, {}, {}, msg)
  ELSE Response("data", {TRUE}, {}, {}, "")

\* throw new Error(msg)  /  return { success: false, initiative: null }
Failure(v, msg) ==
  IF v = "throw" THEN Response("error", {}, {}, {}, msg)
  ELSE Response("data", {FALSE}, {}, {}, "")

\* return { initiative }  /  return { success: true, initiative }
Success(v, initiative) ==
  IF v = "throw" THEN Response("data", {}, {initiative}, {}, "")
  ELSE Response("data", {TRUE}, {initiative}, {}, "")

\* return { initiatives }  /  return { success: true, initiatives }
Listing(v, list) ==
  IF v = "throw" THEN Response("data", {}, {}, {list}, "")
  ELSE Response("data", {TRUE}, {}, {list}, "")

\* ------------------------------------------------------- permission check
Includes(list, x) == \E i \in 1..Len(list) : list[i] = x

\* (mutant) required.every((p) => user.permissions.includes(p))
hasPermissionsEvery(user, required) ==
  \A i \in 1..Len(required) : Includes(user.permissions, required[i])

\* required.some((p) => user.permissions.includes(p))
hasPermissions(user, required) ==
  \E i \in 1..Len(required) : Includes(user.permissions, required[i])

\* ------------------------------------------------------ Prisma accessors
\* findFirst on "user" where secret, password not selected; a failing
\* query is caught and gives null
getUserBySecretNoPassword(secret) ==
  IF dbUp
  THEN { [id |-> u.id, name |-> u.name, email |-> u.email, image |-> u.image,
          secret |-> u.secret, permissions |-> u.permissions,
          roles |-> u.roles] : u \in {x \in users : x.secret = secret} }
  ELSE {}

\* (mutant) a findMany that is answered although the database is down
getAllInitiativesDespiteOutage == initiatives

\* findMany on "initiative"; a failing query is caught and gives []
getAllInitiatives == IF dbUp THEN initiatives ELSE {}

\* (mutant) a findFirst whose where clause is lost: any row will do
getInitiativeByIdAnyRow(id) ==
  IF dbUp /\ initiatives # {} THEN {CHOOSE i \in initiatives : TRUE} ELSE {}

\* findFirst on "initiative" where id
getInitiativeById(id) ==
  IF dbUp THEN {i \in initiatives : i.id = id} ELSE {}

\* the row the database stores for the data of a create: the columns given
\* and updatedAt (DateTime @updatedAt), kept here as the number of updates
\* the row has seen; createdAt is written at the insert and never again
Inserted(data) ==
  [id |-> data.id, name |-> data.name, description |-> data.description,
   image |-> data.image, updatedAt |-> 0]

\* (mutant) a create on a table whose id is not unique
createInitiativeAnyId(row) == IF dbUp THEN {Inserted(row)} ELSE {}

\* create on "initiative": the unique id makes a second row of one id fail
createInitiative(row) ==
  IF dbUp /\ \A i \in initiatives : i.id # row.id THEN {Inserted(row)}
  ELSE {}

\* (mutant) an update that merges name and image and drops the description
updateInitiativeByIdKeepDescription(id, data) ==
  IF dbUp
  THEN { [i EXCEPT !.name = data.name, !.image = data.image,
                   !.updatedAt = @ + 1] :
         i \in {x \in initiatives : x.id = id} }
  ELSE {}

\* (mutant) an update that leaves the image column as it was
updateInitiativeByIdKeepImage(id, data) ==
  IF dbUp
  THEN { [i EXCEPT !.name = data.name, !.description = data.description,
                   !.updatedAt = @ + 1] :
         i \in {x \in initiatives : x.id = id} }
  ELSE {}

\* (mutant) an upsert: a missing row is created
updateInitiativeByIdUpsert(id, data) ==
  IF dbUp
  THEN IF \E x \in initiatives : x.id = id
       THEN { [i EXCEPT !.name = data.name,
                        !.description = data.description,
                        !.image = data.image, !.updatedAt = @ + 1] :
              i \in {x \in initiatives : x.id = id} }
       ELSE { [id |-> id, name |-> data.name,
               description |-> data.description, image |-> data.image,
               updatedAt |-> 0] }
  ELSE {}

\* update on "initiative" where id: a missing row makes it fail; the
\* database sets updatedAt anew with the columns of data
updateInitiativeById(id, data) ==
  IF dbUp
  THEN { [i EXCEPT !.name = data.name, !.description = data.description,
                   !.image = data.image, !.updatedAt = @ + 1] :
         i \in {x \in initiatives : x.id = id} }
  ELSE {}

\* (mutant) a delete whose where clause is lost: every row goes
deleteInitiativeByIdEveryRow(id) ==
  IF dbUp /\ \E i \in initiatives : i.id = id THEN initiatives ELSE {}

\* delete on "initiative" where id: a missing row makes it fail
deleteInitiativeById(id) ==
  IF dbUp THEN {i \in initiatives : i.id = id} ELSE {}

\* ---------------------------------------------------------------- handlers
\* (mutant) initiative.image ?? config.initiative.default.image
ImageOrDefaultNullish(image) ==
  IF image = {} THEN ConfigDefaultImage ELSE TheOne(image)

\* initiative.image || config.initiative.default.image
ImageOrDefault(image) ==
  IF image = {} \/ image = {""} THEN ConfigDefaultImage ELSE TheOne(image)

\* (mutant) initiative.id ?? uuidv4(): an empty id is kept
CallsUuidNullish(in) == in.id = {}

\* whether the handler calls uuidv4(): always, but for a non-empty client id
\* in the version that reads initiative.id || uuidv4()
CallsUuid(in) == in.id = {} \/ in.id = {""}

\* the record the create handler hands to Prisma.createInitiative
CreateData(in, generatedId) ==
  [id |-> generatedId, name |-> in.name, description |-> in.description,
   image |-> ImageOrDefault(in.image)]

\* the data the update handler hands to Prisma.updateInitiativeById
UpdateData(in) ==
  [name |-> in.name, description |-> in.description,
   image |-> ImageOrDefault(in.image)]

\* (mutant) the handler without its  if (!user)  guard
RejectionTokenUnchecked(v, user) ==
  IF user # {} /\ ~hasPermissions(TheOne(user), <<ADMIN>>)
  THEN {Failure(v, "Invalid permissions")}
  ELSE {}

\* (mutant) the handler without its  if (!hasPermissions(...))  guard
RejectionPermissionUnchecked(v, user) ==
  IF user = {} THEN {Failure(v, "Invalid access token")} ELSE {}

\* (mutant) the handler without either guard
RejectionNone(v, user) == {}

\* the two guards every mutating handler opens with: the response they end
\* the request with, or none
Rejection(v, user) ==
  IF user = {} THEN {Failure(v, "Invalid access token")}
  ELSE IF ~hasPermissions(TheOne(user), <<ADMIN>>)
       THEN {Failure(v, "Invalid permissions")}
       ELSE {}

\* if (!newInitiative) ... in createInitiative
CreateResponse(v, newInitiative) ==
  IF newInitiative = {} THEN Failure(v, "Failed to create initiative")
  ELSE Success(v, TheOne(newInitiative))

\* (mutant) deleteInitiative without its  if (!initiative)  guard
DeleteResponseUnchecked(v, initiative) ==
  IF v = "throw" THEN Response("data", {}, initiative, {}, "")
  ELSE Response("data", {TRUE}, initiative, {}, "")

\* if (!initiative) ... in deleteInitiative
DeleteResponse(v, initiative) ==
  IF initiative = {} THEN Failure(v, "Failed to delete initiative")
  ELSE Success(v, TheOne(initiative))

\* if (!updatedInitiative) ... in updateInitiative
UpdateResponse(v, updatedInitiative) ==
  IF updatedInitiative = {} THEN Failure(v, "Failed to update initiative")
  ELSE Success(v, TheOne(updatedInitiative))

\* if (!initiative) ... in getInitiative
GetResponse(v, initiative) ==
  IF initiative = {} THEN Failure(v, "Failed to get initiative")
  ELSE Success(v, TheOne(initiative))

NoInput ==
  [accessToken |-> "", id |-> {}, name |-> "", description |-> "",
   image |-> {}]

Idle ==
  [pc |-> "idle", op |-> "none", raw |-> NoInput, user |-> {},
   generatedId |-> {}, trace |-> <<>>, resp |-> {}]

In(r) == Parsed(variant, req[r].op, req[r].raw)

Finish(r, step, response) ==
  [req EXCEPT ![r].pc = "done", ![r].resp = {response},
              ![r].trace = Append(req[r].trace, step)]

\* ------------------------------------------------------------------ actions
\* A request arrives: tRPC parses its input with the procedure's schema.
Begin(r) ==
  /\ calls < MaxCalls
  /\ req[r].pc = "idle"
  /\ \A s \in Slots : s < r => req[s].pc # "idle"
  /\ concurrent \/ \A s \in Slots : req[s].pc = "idle"
  /\ \E op \in Ops : \E raw \in RawInputs(op, concurrent) :
       req' = [req EXCEPT ![r] =
                 IF SchemaAccepts(op, raw)
                 THEN [Idle EXCEPT !.pc = IF Authenticated(op) THEN "lookup"
                                          ELSE "exec",
                                   !.op = op, !.raw = raw,
                                   !.trace = <<"validate">>]
                 ELSE [Idle EXCEPT !.pc = "done", !.op = op, !.raw = raw,
                                   !.trace = <<"validate">>,
                                   !.resp = {BadRequest}]]
  /\ calls' = calls + 1
  /\ UNCHANGED sideVars
  /\ UNCHANGED <<variant, concurrent, users, initiatives, dbUp, nextUuid,
                 lastCreate, permArgs, permResult>>

\* The first lines of createInitiative, deleteInitiative and
\* updateInitiative: resolve the caller, check ADMIN, and for a create pick
\* the id.
Lookup(r) ==
  /\ req[r].pc = "lookup"
  /\ LET in == In(r)
         user == getUserBySecretNoPassword(TheOne(in.accessToken))
         out == Rejection(variant, user)
         seen == IF user = {} THEN <<"lookup">>
                 ELSE <<"lookup", "permission">>
         fresh == req[r].op = "createInitiative" /\ out = {} /\ CallsUuid(in)
     IN /\ req' = [req EXCEPT
                     ![r].pc = IF out = {} THEN "exec" ELSE "done",
                     ![r].user = user,
                     ![r].resp = out,
                     ![r].trace = req[r].trace \o seen,
                     ![r].generatedId =
                        IF req[r].op = "createInitiative" /\ out = {}
                        THEN IF fresh THEN {Uuid(nextUuid + 1)} ELSE in.id
                        ELSE {}]
        /\ nextUuid' = IF fresh THEN nextUuid + 1 ELSE nextUuid
  /\ UNCHANGED sideVars
  /\ UNCHANGED <<variant, concurrent, users, initiatives, dbUp, calls,
                 lastCreate, permArgs, permResult>>

\* createInitiative from Prisma.createInitiative to the return
CreateInitiative(r) ==
  /\ req[r].pc = "exec" /\ req[r].op = "createInitiative"
  /\ LET in == In(r)
         row == CreateData(in, TheOne(req[r].generatedId))
         newInitiative == createInitiative(row)
     IN /\ initiatives' = initiatives \cup newInitiative
        /\ req' = Finish(r, "accessor",
                          CreateResponse(variant, newInitiative))
        /\ lastCreate' =
             IF newInitiative = {} THEN lastCreate
             ELSE {c \in lastCreate : c.id # row.id}
                  \cup {[id |-> row.id, name |-> in.name,
                         description |-> in.description,
                         image |-> in.image]}
  /\ UNCHANGED sideVars
  /\ UNCHANGED <<variant, concurrent, users, dbUp, nextUuid, calls, permArgs,
                 permResult>>

\* deleteInitiative from Prisma.deleteInitiativeById to the return
DeleteInitiative(r) ==
  /\ req[r].pc = "exec" /\ req[r].op = "deleteInitiative"
  /\ LET id == TheOne(In(r).id)
         initiative == deleteInitiativeById(id)
     IN /\ initiatives' = initiatives \ initiative
        /\ req' = Finish(r, "accessor", DeleteResponse(variant, initiative))
        /\ lastCreate' =
             IF initiative = {} THEN lastCreate
             ELSE {c \in lastCreate : c.id # id}
  /\ UNCHANGED sideVars
  /\ UNCHANGED <<variant, concurrent, users, dbUp, nextUuid, calls, permArgs,
                 permResult>>

\* updateInitiative from Prisma.updateInitiativeById to the return
UpdateInitiative(r) ==
  /\ req[r].pc = "exec" /\ req[r].op = "updateInitiative"
  /\ LET in == In(r)
         id == TheOne(in.id)
         updatedInitiative == updateInitiativeById(id, UpdateData(in))
     IN /\ initiatives' =
             IF updatedInitiative = {} THEN initiatives
             ELSE {i \in initiatives : i.id # id} \cup updatedInitiative
        /\ req' = Finish(r, "accessor",
                          UpdateResponse(variant, updatedInitiative))
        /\ lastCreate' =
             IF updatedInitiative = {} THEN lastCreate
             ELSE {c \in lastCreate : c.id # id}
  /\ UNCHANGED sideVars
  /\ UNCHANGED <<variant, concurrent, users, dbUp, nextUuid, calls, permArgs,
                 permResult>>

\* getAllInitiatives: no caller lookup, the list as found
GetAllInitiatives(r) ==
  /\ req[r].pc = "exec" /\ req[r].op = "getAllInitiatives"
  /\ req' = Finish(r, "accessor", Listing(variant, getAllInitiatives))
  /\ UNCHANGED sideVars
  /\ UNCHANGED <<variant, concurrent, users, initiatives, dbUp, nextUuid,
                 calls, lastCreate, permArgs, permResult>>

\* getInitiative: no caller lookup, the row or a failure
GetInitiative(r) ==
  /\ req[r].pc = "exec" /\ req[r].op = "getInitiative"
  /\ LET initiative == getInitiativeById(TheOne(In(r).id))
     IN req' = Finish(r, "accessor", GetResponse(variant, initiative))
  /\ UNCHANGED sideVars
  /\ UNCHANGED <<variant, concurrent, users, initiatives, dbUp, nextUuid,
                 calls, lastCreate, permArgs, permResult>>

\* The response has left: the slot is free again.
Return(r) ==
  /\ req[r].pc = "done"
  /\ req' = [req EXCEPT ![r] = Idle]
  /\ UNCHANGED sideVars
  /\ UNCHANGED <<variant, concurrent, users, initiatives, dbUp, nextUuid,
                 calls, lastCreate, permArgs, permResult>>

\* A stand-alone call of hasPermissions on the arguments drawn in InitPerm.
CheckPermissions ==
  /\ permResult = {}
  /\ permResult' = {hasPermissions(permArgs.user, permArgs.required)}
  /\ UNCHANGED sideVars
  /\ UNCHANGED <<variant, concurrent, users, initiatives, dbUp, req,
                 nextUuid, calls, lastCreate, permArgs>>

\* ------------------------------------------------ generic table accessors
\* the models of schema.prisma, by the name of their delegate on the client
ModelTables == {"user", "event", "club", "initiative"}

\* the table names a caller passes: two models and a name that is no model
TableNames == {"initiative", "user", "session"}

AccessorOps == {"findMany", "findOne", "create", "update", "delete"}

RowA ==
  [id |-> "c1", name |-> Name1, description |-> Desc1,
   image |-> ConfigDefaultImage, updatedAt |-> 0]

RowB ==
  [id |-> "c1", name |-> Name50, description |-> Desc100,
   image |-> CustomImage, updatedAt |-> 0]

\* the options of a call: a where clause on the id, the data of a write, and
\* whether the object holds an argument Prisma does not know
AccessorOpts ==
  [where : {{}, {"c1"}, {"zz"}}, data : {{}, {RowA}, {RowB}},
   malformed : BOOLEAN]

NoOpts == [where |-> {}, data |-> {}, malformed |-> FALSE]

\* how an evaluation ends: with a value, or by throwing (a rejected promise
\* that is awaited throws)
Throws == [threw |-> TRUE, value |-> {}]
Returns(v) == [threw |-> FALSE, value |-> v]

\* global.prisma[table]: a TypeError when the slot is empty, undefined when
\* the client has no such delegate
getTable(table) ==
  IF globalPrisma = {} THEN Throws
  ELSE Returns(IF table \in ModelTables THEN {table} ELSE {})

Rows(table) ==
  CASE table = "initiative" -> initiatives
    [] table = "user" -> users
    [] OTHER -> {}

Matching(table, where) == {x \in Rows(table) : where = {} \/ {x.id} = where}

\* the rows of a findMany as the array Prisma returns
SeqOf(rows) ==
  CHOOSE s \in [1..Cardinality(rows) -> rows] :
    \A i, j \in 1..Cardinality(rows) : i # j => s[i] # s[j]

\* Prisma's validation of the arguments of a query: no unknown argument, a
\* write carries its data (initiative columns, which only the initiative
\* model has) and names its row, a read or a delete carries no data
Accepts(method, table, opts) ==
  /\ ~opts.malformed
  /\ method \in {"create", "update"} => opts.data # {} /\ table = "initiative"
  /\ method \in {"update", "delete"} => opts.where # {}
  /\ method = "create" => opts.where = {}
  /\ method \in {"findMany", "findFirst", "delete"} => opts.data = {}

\* tableRef.<method>(opts), awaited: calling a method of undefined throws,
\* and so does a query Prisma refuses, one the database does not answer, a
\* create of a taken id, and an update or delete of a missing row
TableQuery(method, tableRef, opts) ==
  IF tableRef.threw \/ tableRef.value = {} THEN Throws
  ELSE LET table == TheOne(tableRef.value)
           rows == Matching(table, opts.where)
       IN IF ~dbUp \/ ~Accepts(method, table, opts) THEN Throws
          ELSE CASE method = "findMany" -> Returns(SeqOf(rows))
                 [] method = "findFirst" ->
                      Returns(IF rows = {} THEN {}
                              ELSE {CHOOSE x \in rows : TRUE})
                 [] method = "create" ->
                      IF \E x \in Rows(table) : x.id = TheOne(opts.data).id
                      THEN Throws ELSE Returns(opts.data)
                 [] method = "update" ->
                      IF rows = {} THEN Throws ELSE Returns(opts.data)
                 [] OTHER ->
                      IF rows = {} THEN Throws
                      ELSE Returns({CHOOSE x \in rows : TRUE})

\* (mutant) an accessor without its try block
CatchNothing(outcome, fallback) == outcome

\* try { return ... } catch { return fallback }
Catch(outcome, fallback) ==
  IF outcome.threw THEN Returns(fallback) ELSE outcome

findMany(table, opts) ==
  Catch(TableQuery("findMany", getTable(table), opts), <<>>)

findOne(table, opts) ==
  Catch(TableQuery("findFirst", getTable(table), opts), {})

create(table, opts) ==
  Catch(TableQuery("create", getTable(table), opts), {})

update(table, opts) ==
  Catch(TableQuery("update", getTable(table), opts), {})

delete(table, opts) ==
  Catch(TableQuery("delete", getTable(table), opts), {})

\* the last call: its arguments, the slot and the database as it found
\* them, and how it ended
NoCall ==
  [op |-> "none", table |-> "", opts |-> NoOpts, slot |-> {}, up |-> TRUE,
   outcome |-> Returns({})]

Called(op, table, opts, outcome) ==
  [op |-> op, table |-> table, opts |-> opts, slot |-> globalPrisma,
   up |-> dbUp, outcome |-> outcome]

\* the rows of a table after a call that returned `written`: a find
\* leaves them as they are
AfterWrite(op, table, target, opts, written) ==
  IF table # target \/ written = {} \/ op \in {"findMany", "findOne"}
  THEN Rows(target)
  ELSE CASE op = "create" -> Rows(target) \cup written
         [] op = "update" ->
              (Rows(target) \ Matching(target, opts.where)) \cup written
         [] OTHER -> Rows(target) \ written

Write(op, table, opts, outcome) ==
  /\ acc' = Called(op, table, opts, outcome)
  /\ initiatives' = AfterWrite(op, table, "initiative", opts, outcome.value)
  /\ users' = AfterWrite(op, table, "user", opts, outcome.value)
  /\ UNCHANGED <<variant, concurrent, dbUp, req, nextUuid, calls, lastCreate,
                 permArgs, permResult, globalPrisma, instances, userRead,
                 env, cookie, client>>

FindMany ==
  /\ \E table \in TableNames, opts \in AccessorOpts :
       acc' = Called("findMany", table, opts, findMany(table, opts))
  /\ UNCHANGED <<variant, concurrent, users, initiatives, dbUp, req,
                 nextUuid, calls, lastCreate, permArgs, permResult,
                 globalPrisma, instances, userRead, env, cookie, client>>

FindOne ==
  /\ \E table \in TableNames, opts \in AccessorOpts :
       acc' = Called("findOne", table, opts, findOne(table, opts))
  /\ UNCHANGED <<variant, concurrent, users, initiatives, dbUp, req,
                 nextUuid, calls, lastCreate, permArgs, permResult,
                 globalPrisma, instances, userRead, env, cookie, client>>

Create ==
  \E table \in TableNames, opts \in AccessorOpts :
    Write("create", table, opts, create(table, opts))

Update ==
  \E table \in TableNames, opts \in AccessorOpts :
    Write("update", table, opts, update(table, opts))

Delete ==
  \E table \in TableNames, opts \in AccessorOpts :
    Write("delete", table, opts, delete(table, opts))

\* ------------------------------------------------------------- user reads
\* select: { ... } keeps the columns marked true
Project(row, columns) == [c \in columns |-> row[c]]

\* (mutant) a listing whose select marks secret true
SecureColumnsWithSecret ==
  {"id", "name", "email", "image", "permissions", "roles", "secret"}

\* the select of getAllUsersSecure: password and secret are marked false
SecureColumns == {"id", "name", "email", "image", "permissions", "roles"}

\* the select of getUserByEmailNoPassword: only password is marked false
LookupColumns ==
  {"id", "name", "email", "image", "secret", "permissions", "roles"}

\* findMany on "user" with the select above
getAllUsersSecure ==
  LET rows == findMany("user", NoOpts).value
  IN [i \in 1..Len(rows) |-> Project(rows[i], SecureColumns)]

\* findFirst on "user" where email; a failing query is caught and gives null
getUserByEmailNoPassword(email) ==
  IF dbUp /\ globalPrisma # {}
  THEN {Project(u, LookupColumns) : u \in {x \in users : x.email = email}}
  ELSE {}

Emails == {"admin@socis.ca", "nobody@socis.ca"}

\* (mutant) a session callback that deletes the user it resolves
UserAccessorDeleting(read) ==
  IF read = "session" THEN "delete" ELSE "findMany"

\* the generic accessor a user read is written with
UserAccessor(read) == IF read = "session" THEN "findOne" ELSE "findMany"

NoRead == [op |-> "none", email |-> "", result |-> Returns({})]

\* A caller lists the users.
GetAllUsersSecure ==
  /\ calls < MaxCalls
  /\ calls' = calls + 1
  /\ userRead' = [op |-> "getAllUsersSecure", email |-> "",
                  result |-> Returns(getAllUsersSecure)]
  /\ users' = AfterWrite(UserAccessor("getAllUsersSecure"), "user", "user",
                         NoOpts, users)
  /\ UNCHANGED <<variant, concurrent, initiatives, dbUp, req, nextUuid,
                 lastCreate, permArgs, permResult, globalPrisma,
                 instances, acc, env, cookie, client>>

\* NextAuth builds a session: the session callback replaces the session's
\* user by the row of its email, and throws when there is none.
SessionCallback ==
  /\ calls < MaxCalls
  /\ calls' = calls + 1
  /\ \E email \in Emails :
       LET user == getUserByEmailNoPassword(email)
       IN /\ userRead' = [op |-> "session", email |-> email,
                          result |-> IF user = {} THEN Throws
                                     ELSE Returns(user)]
          /\ users' = AfterWrite(UserAccessor("session"), "user", "user",
                                 NoOpts, {x \in users : x.email = email})
  /\ UNCHANGED <<variant, concurrent, initiatives, dbUp, req, nextUuid,
                 lastCreate, permArgs, permResult, globalPrisma,
                 instances, acc, env, cookie, client>>

\* ------------------------------------------------- session-token cookie
\* a hostname is the sequence of its characters
Alphabet == {"a", "b", "."}

WellFormed(host) ==
  /\ host # <<>>
  /\ host[1] # "." /\ host[Len(host)] # "."
  /\ \A i \in 1..(Len(host) - 1) : ~(host[i] = "." /\ host[i + 1] = ".")

Hostnames ==
  {h \in UNION {[1..n -> Alphabet] : n \in 1..MaxHost} : WellFormed(h)}

\* process.env: a variable is unset, or set
Envs ==
  [NEXTAUTH_URL : {{}} \cup {{[protocol |-> "https", hostname |-> h]} :
                             h \in Hostnames},
   NODE_ENV : {{}, {"development"}, {"production"}, {"test"}}]

DefaultEnv == [NEXTAUTH_URL |-> {}, NODE_ENV |-> {}]

\* "http://localhost:3000"
DefaultUrl ==
  [protocol |-> "http",
   hostname |-> <<"l", "o", "c", "a", "l", "h", "o", "s", "t">>]

\* process.env.NEXTAUTH_URL ?? "http://localhost:3000"
UrlOf(e) == IF e.NEXTAUTH_URL = {} THEN DefaultUrl ELSE TheOne(e.NEXTAUTH_URL)

\* the characters as one string
RECURSIVE Text(_)
Text(chars) == IF chars = <<>> THEN "" ELSE Head(chars) \o Text(Tail(chars))

\* String.prototype.split: the pieces between the separators
RECURSIVE Split(_, _)
Split(chars, sep) ==
  IF \A i \in 1..Len(chars) : chars[i] # sep THEN <<chars>>
  ELSE LET k == CHOOSE i \in 1..Len(chars) :
                  chars[i] = sep /\ \A j \in 1..(i - 1) : chars[j] # sep
       IN <<SubSeq(chars, 1, k - 1)>>
          \o Split(SubSeq(chars, k + 1, Len(chars)), sep)

\* Array.prototype.reverse
Reverse(s) == [i \in 1..Len(s) |-> s[Len(s) + 1 - i]]

\* Array.prototype.splice(0, count): the elements it removes
Splice(s, count) == SubSeq(s, 1, IF Len(s) < count THEN Len(s) ELSE count)

\* Array.prototype.join
RECURSIVE Join(_, _)
Join(pieces, sep) ==
  IF pieces = <<>> THEN ""
  ELSE IF Len(pieces) = 1 THEN Text(pieces[1])
       ELSE Text(pieces[1]) \o sep \o Join(Tail(pieces), sep)

\* (mutant) the chain without its second reverse()
ROOT_DOMAIN_Unreversed(hostname) ==
  Join(Splice(Reverse(Split(hostname, ".")), 2), ".")

\* hostname.split(".").reverse().splice(0, 2).reverse().join(".")
ROOT_DOMAIN(hostname) ==
  Join(Reverse(Splice(Reverse(Split(hostname, ".")), 2)), ".")

\* process.env.NODE_ENV !== "development"
IS_SECURE(e) == e.NODE_ENV # {"development"}

\* cookies.sessionToken of the NextAuth options
SessionToken(e) ==
  [name     |-> IF IS_SECURE(e) THEN "__Secure-next-auth.session-token"
                ELSE "next-auth.session-token",
   httpOnly |-> TRUE,
   sameSite |-> "lax",
   path     |-> "/",
   domain   |-> "." \o ROOT_DOMAIN(UrlOf(e).hostname),
   secure   |-> IS_SECURE(e)]

\* The NextAuth module is evaluated and builds its options.
ConfigureCookie ==
  /\ cookie = {}
  /\ cookie' = {SessionToken(env)}
  /\ UNCHANGED <<variant, concurrent, users, initiatives, dbUp, req,
                 nextUuid, calls, lastCreate, permArgs, permResult,
                 globalPrisma, instances, acc, userRead, env, client>>

\* ---------------------------------------------------------------- pages
\* the create page, the update page or a delete button before anything
\* happened: the session still loading, nothing fetched, nothing submitted
NoClient ==
  [page |-> "none", sessionStatus |-> "loading", user |-> {},
   initiativeId |-> {}, fetchStatus |-> "need_fetch", initiative |-> {},
   status |-> "idle", confirm |-> FALSE, call |-> {}, fetched |-> {},
   settled |-> {}]

\* config.initiative.default, the first content of the create form
DefaultInitiative ==
  [name |-> "New Initiative",
   description |-> "Empty initiative description",
   image |-> ConfigDefaultImage]

\* a string of n characters
RECURSIVE Typed(_)
Typed(n) == IF n = 0 THEN "" ELSE "x" \o Typed(n - 1)

\* what a user types into the name and description fields
ClientData ==
  { <<Name1, Desc1>>, <<Name50, Desc100>>, <<"", Desc1>>, <<Name51, Desc100>> }

\* (mutant) a validator that only refuses empty fields
isValidInitiativeDataNonEmpty(initiative) ==
  /\ initiative # {}
  /\ TheOne(initiative).name # ""
  /\ TheOne(initiative).description # ""

isValidInitiativeData(initiative) ==
  /\ initiative # {}
  /\ LET i == TheOne(initiative)
     IN /\ i.name # ""
        /\ Len(i.name) <= ConfigMaxName /\ Len(i.name) >= ConfigMinName
        /\ i.description # ""
        /\ Len(i.description) <= ConfigMaxDescription
        /\ Len(i.description) >= ConfigMinDescription

\* mutateAsync(input): a call of a procedure in flight
Calling(op, accessToken, id, initiative) ==
  [op |-> op, accessToken |-> accessToken, id |-> id,
   initiative |-> initiative]

\* the request never got an answer: mutateAsync rejects
TransportError == Response("error", {}, {}, {}, "fetch failed")

\* how a call of a procedure can settle at the client
Settlements ==
  {Success(variant, RowA), Success(variant, RowB), Failure(variant, ""),
   TransportError}

\* what the update page renders
UpdateView(c) ==
  IF c.initiativeId = {} THEN "invalid-initiative"
  ELSE IF \/ c.initiative = {}
          \/ c.sessionStatus = "loading"
          \/ c.fetchStatus = "loading"
          \/ c.status = "loading"
       THEN "spinner"
  ELSE IF c.sessionStatus # "authenticated" THEN "invalid-session"
  ELSE IF c.fetchStatus = "error" THEN "fetch-error"
  ELSE IF ~hasPermissions(TheOne(c.user), <<ADMIN>>)
       THEN "invalid-permissions"
  ELSE "form"

\* what the create page renders
CreateView(c) ==
  IF c.sessionStatus = "loading" \/ c.status = "loading" THEN "spinner"
  ELSE IF c.sessionStatus = "unauthenticated" \/ c.user = {}
       THEN "invalid-session"
  ELSE IF ~hasPermissions(TheOne(c.user), <<ADMIN>>)
       THEN "invalid-permissions"
  ELSE "form"

View(c) ==
  CASE c.page = "update" -> UpdateView(c)
    [] c.page = "create" -> CreateView(c)
    [] OTHER -> IF c.confirm THEN "confirm" ELSE "delete"

ClientStep(next) ==
  /\ client' = next
  /\ UNCHANGED <<variant, concurrent, users, initiatives, dbUp, req,
                 nextUuid, calls, lastCreate, permArgs, permResult,
                 globalPrisma, instances, acc, userRead, env, cookie>>

\* useSession() resolves.
SessionSettles ==
  /\ client.page # "none" /\ client.sessionStatus = "loading"
  /\ \E u \in {{}} \cup {{Project(x, LookupColumns)} : x \in users} :
       ClientStep([client EXCEPT
                     !.sessionStatus = IF u = {} THEN "unauthenticated"
                                       ELSE "authenticated",
                     !.user = u])

\* The effect of the update page runs on mount and starts the fetch.
FetchEffect ==
  /\ client.page = "update"
  /\ client.initiativeId # {} /\ client.fetchStatus = "need_fetch"
  /\ ClientStep([client EXCEPT
                   !.fetchStatus = "loading",
                   !.call = {Calling("getInitiative", {}, client.initiativeId,
                                     {})}])

\* getInitiative settles: the then or the catch of the effect.
FetchSettles ==
  /\ \E c \in client.call : c.op = "getInitiative"
  /\ \E resp \in Settlements :
       LET found == resp.type = "data" /\ resp.initiative # {}
       IN ClientStep([client EXCEPT
                        !.call = {},
                        !.fetched = {resp},
                        !.initiative = IF found THEN resp.initiative ELSE @,
                        !.fetchStatus = IF found THEN "success"
                                        ELSE "error"])

\* The user types into the form (onChange).
Edit ==
  /\ View(client) = "form"
  /\ \E d \in ClientData :
       ClientStep([client EXCEPT
                     !.initiative = {[TheOne(@) EXCEPT !.name = d[1],
                                                       !.description = d[2]]}])

\* (mutant) an onSubmit without its isValidInitiativeData guard
SubmitUnvalidated ==
  /\ View(client) = "form" /\ client.status # "success"
  /\ ClientStep([client EXCEPT
                   !.settled = {},
                   !.status = "loading",
                   !.call = {Calling(IF client.page = "create"
                                     THEN "createInitiative"
                                     ELSE "updateInitiative",
                                     {TheOne(client.user).secret}, {},
                                     client.initiative)}])

\* onSubmit of the create and of the update page, up to its await; after a
\* success router.push has left the page
Submit ==
  /\ View(client) = "form" /\ client.status # "success"
  /\ LET valid == isValidInitiativeData(client.initiative)
     IN ClientStep([client EXCEPT
                      !.settled = {},
                      !.status = IF valid THEN "loading" ELSE "empty_fields",
                      !.call =
                         IF ~valid THEN {}
                         ELSE {Calling(IF client.page = "create"
                                       THEN "createInitiative"
                                       ELSE "updateInitiative",
                                       {TheOne(client.user).secret}, {},
                                       client.initiative)}])

\* The Delete button, and the cancel button beside the confirm button.
ConfirmOrCancel ==
  /\ client.page = "delete"
  /\ client.confirm => client.status # "loading"
  /\ ClientStep([client EXCEPT !.confirm = ~@])

\* onDeleteInitiative up to its await
DeleteClick ==
  /\ client.page = "delete" /\ client.confirm
  /\ client.status # "loading"
  /\ ClientStep([client EXCEPT
                   !.settled = {},
                   !.status = "loading",
                   !.call = {Calling("deleteInitiative",
                                     {TheOne(client.user).secret},
                                     {TheOne(client.initiative).id}, {})}])

\* the rest of a handler after its await: a rejected call throws out of the
\* handler, which has no catch; only the create page and the delete button
\* have an else for success: false
StatusAfter(page, status, resp) ==
  IF resp.type = "error" THEN status
  ELSE CASE page = "update" ->
              IF resp.success = {TRUE} THEN "success" ELSE status
         [] OTHER -> IF resp.success = {TRUE} THEN "success" ELSE "error"

\* createInitiative, updateInitiative or deleteInitiative settles.
SubmitSettles ==
  /\ client.page \in {"create", "update", "delete"}
  /\ \E c \in client.call : c.op # "getInitiative"
  /\ \E resp \in Settlements :
       ClientStep([client EXCEPT
                     !.call = {},
                     !.settled = {resp},
                     !.status = StatusAfter(client.page, client.status,
                                            resp)])

\* ------------------------------------------------ the initiative card
\* The Delete button of the card (shown to a user who can manage
\* initiatives) opens the modal, its Cancel button closes it.
CardOpenOrCancel ==
  /\ client.page = "card"
  /\ IF client.confirm THEN client.status # "loading"
     ELSE /\ client.user # {}
          /\ hasPermissions(TheOne(client.user), <<ADMIN>>)
  /\ ClientStep([client EXCEPT !.confirm = ~@])

\* onClick of the modal's Delete button up to its await
CardDeleteClick ==
  /\ client.page = "card" /\ client.confirm
  /\ client.status # "loading"
  /\ client.user # {}
  /\ ClientStep([client EXCEPT
                   !.settled = {},
                   !.status = "loading",
                   !.call = {Calling("deleteInitiative",
                                     {TheOne(client.user).secret},
                                     {TheOne(client.initiative).id}, {})}])

\* the setStatus calls that follow the call: the one of .then or of .catch,
\* and the one after the await
CardStatusWrites(resp) ==
  <<IF resp.type = "error" THEN "error" ELSE "success", "success">>

\* deleteInitiative settles at the card: the rest of the onClick handler,
\* which ends by closing the modal
CardDeleteSettles ==
  /\ client.page = "card"
  /\ \E c \in client.call : c.op = "deleteInitiative"
  /\ \E resp \in Settlements :
       LET writes == CardStatusWrites(resp)
       IN ClientStep([client EXCEPT
                        !.call = {},
                        !.settled = {resp},
                        !.status = writes[Len(writes)],
                        !.confirm = FALSE])

\* -------------------------------------------------- the process-wide client
\* (mutant) a module that constructs a client on every evaluation
ConstructsAlways(slot) == TRUE

\* if (!global.prisma)
Constructs(slot) == slot = {}

\* The module of the Prisma class is evaluated (on its first import, and
\* again whenever the bundler reloads it): the last lines of the module.
EvaluateModule ==
  /\ globalPrisma' = IF Constructs(globalPrisma) THEN {instances + 1}
                     ELSE globalPrisma
  /\ instances' = IF Constructs(globalPrisma) THEN instances + 1
                  ELSE instances
  /\ UNCHANGED <<variant, concurrent, users, initiatives, dbUp, req,
                 nextUuid, calls, lastCreate, permArgs, permResult, acc,
                 userRead, env, cookie, client>>

\* the static accessors exist once the module was evaluated
ModuleLoaded == instances > 0

\* ----------------------------------------------------------- specifications
AdminUser ==
  [id |-> "user-1", secret |-> "secret-admin", email |-> "admin@socis.ca",
   password |-> "pw-1", name |-> "Admin", roles |-> <<"member">>,
   permissions |-> <<"default", ADMIN>>, image |-> "/images/u1.png"]

MemberUser ==
  [id |-> "user-2", secret |-> "secret-member", email |-> "member@socis.ca",
   password |-> "pw-2", name |-> "Member", roles |-> <<"member">>,
   permissions |-> <<"default">>, image |-> "/images/u2.png"]

NoPermArgs == [user |-> [permissions |-> <<>>], required |-> <<>>]

\* the parts outside the request handlers at rest: the module evaluated,
\* no accessor called, no page open
SideAtRest ==
  /\ globalPrisma = {1}
  /\ instances = 1
  /\ acc = NoCall
  /\ userRead = NoRead
  /\ env = DefaultEnv
  /\ cookie = {}
  /\ client = NoClient

InitServer ==
  /\ variant \in Variants
  /\ users = {AdminUser, MemberUser}
  /\ initiatives = {}
  /\ dbUp = TRUE
  /\ req = [r \in Slots |-> Idle]
  /\ nextUuid = 0
  /\ calls = 0
  /\ lastCreate = {}
  /\ permResult = {}

InitCommon == InitServer /\ SideAtRest

\* one request at a time, on the full range of inputs
Init == InitCommon /\ concurrent = FALSE /\ permArgs = NoPermArgs

\* overlapping requests
InitConc == InitCommon /\ concurrent = TRUE /\ permArgs = NoPermArgs

\* the permission predicate on its own
InitPerm ==
  /\ InitCommon
  /\ concurrent = FALSE
  /\ permArgs \in [user : [permissions : PermissionLists],
                   required : PermissionLists]

Next ==
  \E r \in Slots :
    \/ Begin(r)
    \/ Lookup(r)
    \/ CreateInitiative(r)
    \/ DeleteInitiative(r)
    \/ UpdateInitiative(r)
    \/ GetAllInitiatives(r)
    \/ GetInitiative(r)
    \/ Return(r)

\* The database becomes unreachable, or reachable again: while it is down
\* every query throws inside the accessor's try block. An outage draws on
\* the same budget as the requests.
DbFlip ==
  /\ calls < MaxCalls
  /\ dbUp' = ~dbUp
  /\ calls' = calls + 1
  /\ UNCHANGED sideVars
  /\ UNCHANGED <<variant, concurrent, users, initiatives, req, nextUuid,
                 lastCreate, permArgs, permResult>>

NextFault == Next \/ DbFlip

Spec == Init /\ [][Next]_vars
SpecFault == Init /\ [][NextFault]_vars
SpecConc == InitConc /\ [][Next]_vars
SpecPerm == InitPerm /\ [][CheckPermissions]_vars

\* the router, one request at a time, together with the user reads outside
\* it; a read draws on the same budget as the requests
NextUsers == Next \/ GetAllUsersSecure \/ SessionCallback

SpecUsers == Init /\ [][NextUsers]_vars

\* the cookie configuration on its own, for every environment
InitCookie ==
  /\ InitServer
  /\ variant = "envelopeId"
  /\ concurrent = FALSE
  /\ permArgs = NoPermArgs
  /\ globalPrisma = {1}
  /\ instances = 1
  /\ acc = NoCall
  /\ userRead = NoRead
  /\ env \in Envs
  /\ cookie = {}
  /\ client = NoClient

SpecCookie == InitCookie /\ [][ConfigureCookie]_vars

\* one page, button or card from the moment it is opened; a delete button
\* is shown to a signed-in user, a card to anyone. A promise settles and an
\* effect runs; what the user does is not forced.
InitClient ==
  /\ InitServer
  /\ variant = "envelopeId"
  /\ concurrent = FALSE
  /\ permArgs = NoPermArgs
  /\ globalPrisma = {1}
  /\ instances = 1
  /\ acc = NoCall
  /\ userRead = NoRead
  /\ env = DefaultEnv
  /\ cookie = {}
  /\ client \in
       {[NoClient EXCEPT !.page = "create",
                         !.initiative = {DefaultInitiative}]}
       \cup {[NoClient EXCEPT !.page = "update", !.initiativeId = i] :
              i \in {{}, {"c1"}}}
       \cup {[NoClient EXCEPT !.page = "delete",
                              !.initiative = {row},
                              !.sessionStatus = "authenticated",
                              !.user = {Project(u, LookupColumns)}] :
              u \in {AdminUser, MemberUser}, row \in {RowA, RowB}}
       \cup {[NoClient EXCEPT !.page = "card",
                              !.initiative = {row},
                              !.sessionStatus = "authenticated",
                              !.user = {Project(u, LookupColumns)}] :
              u \in {AdminUser, MemberUser}, row \in {RowA, RowB}}
       \cup {[NoClient EXCEPT !.page = "card",
                              !.initiative = {row},
                              !.sessionStatus = "unauthenticated"] :
              row \in {RowA, RowB}}

NextClient ==
  \/ SessionSettles
  \/ FetchEffect
  \/ FetchSettles
  \/ Edit
  \/ Submit
  \/ ConfirmOrCancel
  \/ DeleteClick
  \/ SubmitSettles
  \/ CardOpenOrCancel
  \/ CardDeleteClick
  \/ CardDeleteSettles

SpecClient ==
  /\ InitClient
  /\ [][NextClient]_vars
  /\ WF_vars(SessionSettles)
  /\ WF_vars(FetchEffect)
  /\ WF_vars(FetchSettles)
  /\ WF_vars(SubmitSettles)
  /\ WF_vars(CardDeleteSettles)

\* a form on its own, shown to a signed-in admin and holding a name and a
\* description of any length: the create form, and the update form of a
\* fetched initiative
InitForm ==
  /\ InitServer
  /\ variant = "envelopeId"
  /\ concurrent = FALSE
  /\ permArgs = NoPermArgs
  /\ globalPrisma = {1}
  /\ instances = 1
  /\ acc = NoCall
  /\ userRead = NoRead
  /\ env = DefaultEnv
  /\ cookie = {}
  /\ \E n \in 0..MaxName, d \in 0..MaxDescription :
       LET content == [DefaultInitiative EXCEPT !.name = Typed(n),
                                                !.description = Typed(d)]
           shown == [NoClient EXCEPT
                       !.sessionStatus = "authenticated",
                       !.user = {Project(AdminUser, LookupColumns)}]
       IN client \in
            {[shown EXCEPT !.page = "create", !.initiative = {content}],
             [shown EXCEPT !.page = "update",
                           !.initiativeId = {"c1"},
                           !.fetchStatus = "success",
                           !.initiative =
                              {[id |-> "c1", name |-> content.name,
                                description |-> content.description,
                                image |-> content.image,
                                updatedAt |-> 0]}]}

NextForm == Submit \/ SubmitSettles

SpecForm == InitForm /\ [][NextForm]_vars

\* the generic accessors on their own, against a database that comes and
\* goes; the slot is a property of globalThis, which other code of the
\* process can clear, so a call may find it empty
InitTable ==
  /\ InitServer
  /\ variant = "envelopeId"
  /\ concurrent = FALSE
  /\ permArgs = NoPermArgs
  /\ globalPrisma \in {{}, {1}}
  /\ instances = 1
  /\ acc = NoCall
  /\ userRead = NoRead
  /\ env = DefaultEnv
  /\ cookie = {}
  /\ client = NoClient

NextTable == FindMany \/ FindOne \/ Create \/ Update \/ Delete \/ DbFlip

SpecTable == InitTable /\ [][NextTable]_vars

\* a process from its start: nothing evaluated yet, the slot empty
InitProcess ==
  /\ InitServer
  /\ variant = "envelopeId"
  /\ concurrent = FALSE
  /\ permArgs = NoPermArgs
  /\ globalPrisma = {}
  /\ instances = 0
  /\ acc = NoCall
  /\ userRead = NoRead
  /\ env = DefaultEnv
  /\ cookie = {}
  /\ client = NoClient

NextProcess ==
  \/ EvaluateModule
  \/ ModuleLoaded /\ (FindMany \/ FindOne \/ Create \/ Update \/ Delete)
  \/ DbFlip

SpecProcess == InitProcess /\ [][NextProcess]_vars

\* ------------------------------------------------------------------ claims
MatchesNoUser(token) == \A u \in users : u.secret # token

NonAdminUser(token) ==
  \E u \in users :
    /\ u.secret = token
    /\ \A i \in 1..Len(u.permissions) : u.permissions[i] # "admin"

EnvelopeFailure ==
  [type |-> "data", success |-> {FALSE}, initiative |-> {},
   initiatives |-> {}, message |-> ""]

Raised(resp) == resp # {} /\ TheOne(resp).type = "error"

Done(r) == req[r].pc = "done"

\* the request that takes the step, when slot r changes in it
Stepped(r) == req'[r] # req[r]
Moving(r) == IF req[r].pc = "idle" THEN req'[r] ELSE req[r]

NameInRange(name) == Len(name) >= 1 /\ Len(name) <= 50
DescriptionInRange(d) == Len(d) >= 1 /\ Len(d) <= 100

\* C1 as stated: every create/update/delete call whose accessToken
\* matches no user's secret yields {success:false, initiative:null} (a raised
\* error in the throwing version). It fails: a call whose name or description
\* the schema rejects is answered by tRPC with an error in the envelope
\* versions too.
C1_Original ==
  \A r \in Slots :
    (Done(r) /\ req[r].op \in Mutating
       /\ MatchesNoUser(req[r].raw.accessToken))
    => IF variant = "throw" THEN Raised(req[r].resp)
       ELSE req[r].resp = {EnvelopeFailure}

C1_Response ==
  \A r \in Slots :
    (Done(r) /\ req[r].op \in Mutating
       /\ MatchesNoUser(req[r].raw.accessToken))
    => IF  (req[r].op # "deleteInitiative"
            /\ ~(NameInRange(req[r].raw.name)
                 /\ DescriptionInRange(req[r].raw.description)))
       THEN Raised(req[r].resp)
       ELSE IF variant = "throw" THEN Raised(req[r].resp)
            ELSE req[r].resp = {EnvelopeFailure}

C1_NoWrite ==
  \A r \in Slots :
    (Stepped(r) /\ Moving(r).op \in Mutating
       /\ MatchesNoUser(Moving(r).raw.accessToken))
    => initiatives' = initiatives

\* C1 (amended): a create/update/delete call whose accessToken matches no
\* user's secret ends in {success:false, initiative:null} (in the throwing
\* version, in a raised error) when its input passes the schema, and in a
\* raised error in every version when its name or description is out of
\* range; no step of such a call changes the initiative table.
C1_UnknownTokenRejected == []C1_Response /\ [][C1_NoWrite]_vars

C1_Witness ==
  \E r \in Slots :
    /\ Done(r) /\ req[r].op = "updateInitiative"
    /\ req[r].raw.accessToken = "secret-none"
    /\ req[r].raw.name = Name50
    /\ req[r].resp = {EnvelopeFailure}
    /\ \E i \in initiatives : i.id = TheOne(req[r].raw.id) /\ i.name = Name1

SameCall(r1, r2) ==
  /\ req[r1].op = req[r2].op
  /\ [req[r1].raw EXCEPT !.accessToken = ""]
       = [req[r2].raw EXCEPT !.accessToken = ""]

C2_Pair(r1, r2) ==
  /\ Done(r1) /\ Done(r2) /\ SameCall(r1, r2)
  /\ req[r1].op \in Mutating
  /\ NonAdminUser(req[r1].raw.accessToken)
  /\ MatchesNoUser(req[r2].raw.accessToken)

\* C2 as stated: a mutating call with the secret of a user without ADMIN
\* gets exactly the response of the same call with a token that matches no
\* user. It fails in the throwing version, whose two errors carry different
\* messages.
C2_Original ==
  \A r1, r2 \in Slots : C2_Pair(r1, r2) => req[r1].resp = req[r2].resp

C2_Response ==
  \A r1, r2 \in Slots :
    C2_Pair(r1, r2)
    => IF variant = "throw" /\ TheOne(req[r2].resp).message # "BAD_REQUEST"
       THEN /\ Raised(req[r1].resp) /\ Raised(req[r2].resp)
            /\ TheOne(req[r1].resp).message = "Invalid permissions"
            /\ TheOne(req[r2].resp).message = "Invalid access token"
       ELSE req[r1].resp = req[r2].resp

C2_NoWrite ==
  \A r \in Slots :
    (Stepped(r) /\ Moving(r).op \in Mutating
       /\ NonAdminUser(Moving(r).raw.accessToken))
    => initiatives' = initiatives

\* C2 (amended): a mutating call with the secret of a user without ADMIN
\* changes no initiative and, in the envelope versions, gets exactly the
\* response of the same call with a token that matches no user; in the
\* throwing version both calls raise an error, "Invalid permissions" for the
\* one and "Invalid access token" for the other.
C2_NonAdminRejectedLikeUnknown == []C2_Response /\ [][C2_NoWrite]_vars

C2_Witness ==
  \E r1, r2 \in Slots :
    /\ C2_Pair(r1, r2)
    /\ variant = "envelopeId"
    /\ req[r1].op = "deleteInitiative"
    /\ req[r1].resp = {EnvelopeFailure}
    /\ \E i \in initiatives : i.id = TheOne(req[r1].raw.id)

\* C3: a createInitiative or updateInitiative input whose name length is
\* outside [1,50] or whose description length is outside [1,100] is rejected
\* (tRPC raises the error) and the request makes no database call: neither
\* the user lookup nor an initiative read or write.
C3_InvalidInputNoDatabaseCall ==
  \A r \in Slots :
    (req[r].pc # "idle"
       /\ req[r].op \in {"createInitiative", "updateInitiative"}
       /\ ~(NameInRange(req[r].raw.name)
            /\ DescriptionInRange(req[r].raw.description)))
    => /\ Done(r)
       /\ Raised(req[r].resp)
       /\ req[r].trace = <<"validate">>
       /\ req[r].user = {}

C3_Witness ==
  \E r \in Slots :
    /\ Done(r) /\ req[r].op = "updateInitiative"
    /\ req[r].raw.accessToken = "secret-admin"
    /\ Len(req[r].raw.description) = 101
    /\ Raised(req[r].resp)
    /\ \E i \in initiatives : i.id = TheOne(req[r].raw.id)

\* C4: from an empty table, after any sequence and any interleaving of
\* create, update and delete calls, every persisted initiative has a name of
\* length 1..50 and a description of length 1..100.
C4_PersistedWithinBounds ==
  \A i \in initiatives : NameInRange(i.name) /\ DescriptionInRange(i.description)

C4_Witness ==
  /\ Cardinality(initiatives) >= 2
  /\ \E i \in initiatives : Len(i.name) = 50 /\ Len(i.description) = 100

Protocol == <<"validate", "lookup", "permission", "accessor">>

\* C5: a mutating request runs its steps in the order validate, resolve the
\* caller, check ADMIN, accessor: the accessor has run only in a request
\* whose user lookup returned a user holding ADMIN, after those two steps,
\* and a request where one of them failed never reaches the accessor.
C5_AccessorOnlyAfterAuthorization ==
  \A r \in Slots :
    req[r].op \in Mutating
    => /\ \E n \in 0..4 : req[r].trace = SubSeq(Protocol, 1, n)
       /\ (\E n \in 1..Len(req[r].trace) : req[r].trace[n] = "accessor")
          => /\ req[r].trace = Protocol
             /\ req[r].user # {}
             /\ \E u \in req[r].user :
                  \E i \in 1..Len(u.permissions) : u.permissions[i] = "admin"

C5_Witness ==
  \E r \in Slots :
    /\ Done(r) /\ req[r].op = "deleteInitiative"
    /\ req[r].trace = Protocol
    /\ req[r].resp # {} /\ TheOne(req[r].resp).initiative # {}

\* the step in which slot r's handler runs its initiative accessor
Accesses(r, op) ==
  req[r].pc = "exec" /\ req[r].op = op /\ req'[r].pc = "done"

CallerIsAdmin(r) ==
  \E u \in req[r].user :
    \E i \in 1..Len(u.permissions) : u.permissions[i] = "admin"

Present(id) == \E i \in initiatives : i.id = id

C6_Step(r) ==
  /\ Accesses(r, "deleteInitiative")
  /\ CallerIsAdmin(r)
  /\ ~Present(TheOne(req[r].raw.id))

\* C6 as stated: deleting an id that is not in the table, by an ADMIN
\* caller, returns {success:false, initiative:null} rather than throwing, in
\* the envelope and in the throwing version. It fails in the throwing
\* version, which raises "Failed to delete initiative".
C6_Original ==
  [][\A r \in Slots : C6_Step(r) => req'[r].resp = {EnvelopeFailure}]_vars

\* C6 (amended): deleting an id that is not in the table, by an ADMIN
\* caller, leaves the table as it is and returns
\* {success:false, initiative:null} in the envelope versions; the throwing
\* version raises the error "Failed to delete initiative".
C6_DeleteMissingId ==
  [][\A r \in Slots :
       C6_Step(r)
       => /\ initiatives' = initiatives
          /\ IF variant = "throw"
             THEN /\ Raised(req'[r].resp)
                  /\ TheOne(req'[r].resp).message
                       = "Failed to delete initiative"
             ELSE req'[r].resp = {EnvelopeFailure}]_vars

C6_Witness ==
  \E r \in Slots :
    /\ Done(r) /\ req[r].op = "deleteInitiative"
    /\ req[r].trace = Protocol
    /\ variant = "envelopeId"
    /\ req[r].resp = {EnvelopeFailure}
    /\ ~Present(TheOne(req[r].raw.id))
    /\ initiatives # {}

ExpectedImage(image) ==
  IF image = {} \/ image = {""} THEN "/images/default-initiative-image.png"
  ELSE TheOne(image)

Returned(resp) == TheOne(TheOne(resp).initiative)

Succeeded(resp) ==
  /\ resp # {}
  /\ TheOne(resp).type = "data"
  /\ TheOne(resp).initiative # {}
  /\ variant # "throw" => TheOne(resp).success = {TRUE}

\* C7: round trip. When a create with a valid name and description has
\* succeeded and its id was neither updated nor deleted since, getInitiative
\* on the id the create returned yields a record with exactly that name and
\* description, whose image is the configured default image when the create
\* gave no image or an empty one, and the given image otherwise.
C7_CreateGetRoundTrip ==
  [][\A r \in Slots :
       Accesses(r, "getInitiative")
       => \A c \in lastCreate :
            c.id = TheOne(req[r].raw.id)
            => /\ Succeeded(req'[r].resp)
               /\ Returned(req'[r].resp).id = c.id
               /\ Returned(req'[r].resp).name = c.name
               /\ Returned(req'[r].resp).description = c.description
               /\ Returned(req'[r].resp).image = ExpectedImage(c.image)]_vars

C7_Witness ==
  \E r \in Slots :
    /\ Done(r) /\ req[r].op = "getInitiative"
    /\ Succeeded(req[r].resp)
    /\ Returned(req[r].resp).name = Name50
    /\ Returned(req[r].resp).description = Desc100
    /\ Returned(req[r].resp).image = "/images/default-initiative-image.png"
    /\ \E c \in lastCreate :
         c.id = TheOne(req[r].raw.id) /\ c.image = {""} /\ c.name = Name50

\* C8: update is a full replace. After a successful update of an existing
\* id the stored name, description and image are the submitted ones (the
\* default image for an absent or empty one), so a description resubmitted
\* unchanged stays as it was, and the response carries the stored record.
C8_UpdateFullReplace ==
  [][\A r \in Slots :
       (Accesses(r, "updateInitiative") /\ Succeeded(req'[r].resp))
       => /\ Present(TheOne(req[r].raw.id))
          /\ \A i \in initiatives' :
               i.id = TheOne(req[r].raw.id)
               => /\ i.name = req[r].raw.name
                  /\ i.description = req[r].raw.description
                  /\ i.image = ExpectedImage(req[r].raw.image)
                  /\ Returned(req'[r].resp) = i
          /\ \E i \in initiatives' : i.id = TheOne(req[r].raw.id)]_vars

C8_Witness ==
  \E r \in Slots :
    /\ Done(r) /\ req[r].op = "updateInitiative"
    /\ Succeeded(req[r].resp)
    /\ req[r].raw.name = Name50 /\ req[r].raw.description = Desc100
    /\ \E i \in initiatives :
         /\ i.id = TheOne(req[r].raw.id)
         /\ i.name = Name50 /\ i.description = Desc100

\* the response of a read, from the table and the requested id alone
ReadResult(op, id) ==
  IF op = "getAllInitiatives"
  THEN [type |-> "data",
        success |-> IF variant = "throw" THEN {} ELSE {TRUE},
        initiative |-> {}, initiatives |-> {initiatives}, message |-> ""]
  ELSE IF \E i \in initiatives : {i.id} = id
       THEN [type |-> "data",
             success |-> IF variant = "throw" THEN {} ELSE {TRUE},
             initiative |-> {i \in initiatives : {i.id} = id},
             initiatives |-> {}, message |-> ""]
       ELSE IF variant = "throw"
            THEN [type |-> "error", success |-> {}, initiative |-> {},
                  initiatives |-> {}, message |-> "Failed to get initiative"]
            ELSE EnvelopeFailure

\* C9: getAllInitiatives and getInitiative look up no caller and check no
\* permission; their response is determined by the initiative table and the
\* requested id, whatever accessToken the caller sends, and they change
\* neither table.
C9_ReadsNeedNoCaller ==
  [][\A r \in Slots :
       (Stepped(r)
          /\ Moving(r).op \in {"getAllInitiatives", "getInitiative"})
       => /\ initiatives' = initiatives
          /\ users' = users
          /\ req'[r].user = {}
          /\ req'[r].pc = "done"
             => /\ req'[r].trace = <<"validate", "accessor">>
                /\ req'[r].resp
                     = {ReadResult(req[r].op, req[r].raw.id)}]_vars

C9_Witness ==
  \E r \in Slots :
    /\ Done(r) /\ req[r].op = "getInitiative"
    /\ req[r].raw.accessToken = "secret-none"
    /\ Succeeded(req[r].resp)

Elements(list) == {list[i] : i \in 1..Len(list)}

\* C10: hasPermissions(user, required) is true exactly when user.permissions
\* and required share a permission (one shared permission is enough, an empty
\* required list gives false), and the call changes neither its arguments
\* nor a table.
C10_HasPermissionsIsIntersection ==
  /\ [](permResult # {}
        => permResult
           = {Elements(permArgs.user.permissions)
                \cap Elements(permArgs.required) # {}})
  /\ [][/\ permArgs' = permArgs
        /\ users' = users
        /\ initiatives' = initiatives]_vars

C10_Witness ==
  /\ permResult = {TRUE}
  /\ permArgs.required = <<"moderator", "admin">>
  /\ permArgs.user.permissions = <<"default", "admin">>

\* ---------------------------------------------------------------- C11
AccessorFails(call) ==
  \/ call.slot = {}
  \/ call.table \notin ModelTables
  \/ call.opts.malformed
  \/ ~call.up

Fallback(op) == IF op = "findMany" THEN <<>> ELSE {}

\* C11: no call of a generic table accessor ends by throwing, and a call
\* that met an empty global slot, a table name that is no model, malformed
\* options or an unreachable database returned the empty list (findMany) or
\* null (findOne, create, update, delete).
C11_AccessorsSwallowFailures ==
  acc.op # "none" =>
    /\ ~acc.outcome.threw
    /\ AccessorFails(acc) => acc.outcome.value = Fallback(acc.op)

\* a delete of an existing row while the database is unreachable gave null
C11_Witness ==
  /\ acc.op = "delete"
  /\ acc.table = "initiative"
  /\ acc.opts = [where |-> {"c1"}, data |-> {}, malformed |-> FALSE]
  /\ acc.slot # {}
  /\ ~acc.up
  /\ \E i \in initiatives : i.id = "c1"
  /\ acc.outcome = Returns({})

\* ---------------------------------------------------------------- C15
C15_Step ==
  /\ instances' # instances => globalPrisma = {} /\ instances' = instances + 1
  /\ globalPrisma # {} => globalPrisma' = globalPrisma
  /\ (globalPrisma = {} /\ instances' # instances) => globalPrisma' # {}

\* C15: at most one client is ever constructed; a client is constructed
\* only by a module evaluation that finds the global slot empty, which then
\* fills the slot; a filled slot is never replaced, and whenever an accessor
\* has been called the slot held that one client.
C15_SingleClient ==
  /\ [](instances <= 1)
  /\ [](ModuleLoaded => globalPrisma = {1})
  /\ [](acc.op # "none" => acc.slot = {1})
  /\ [][C15_Step]_vars

\* the module was evaluated and an accessor read a row through the client
C15_Witness ==
  /\ instances = 1
  /\ acc.op = "findOne"
  /\ acc.slot = {1}
  /\ acc.outcome.value # {}

\* ---------------------------------------------------------------- C12
IsEnvelope(resp) ==
  /\ resp.type = "data"
  /\ resp.success \in {{TRUE}, {FALSE}}
  /\ resp.success = {FALSE} => resp.initiative = {} /\ resp.initiatives = {}

Envelope == variant \in {"envelope", "envelopeId"}

SchemaRejects(q) ==
  /\ q.op \in {"createInitiative", "updateInitiative"}
  /\ ~(NameInRange(q.raw.name) /\ DescriptionInRange(q.raw.description))

\* C12 as stated: in the envelope versions every finished call, whatever
\* made it fail, carries an envelope and none an error. It fails for a
\* create or update whose name or description is out of range: tRPC answers
\* that call with an error.
C12_Original ==
  Envelope => \A r \in Slots : Done(r) => IsEnvelope(TheOne(req[r].resp))

\* C12 (amended): in the envelope versions every finished call whose input
\* the schema accepts carries an envelope with a success flag, and a null
\* payload when the flag is false, whether the token was unknown, ADMIN was
\* missing or the accessor gave no row; a call whose input the schema
\* rejects carries the tRPC error instead.
C12_EnvelopeUnlessSchemaRejects ==
  Envelope =>
    \A r \in Slots :
      Done(r) => IF SchemaRejects(req[r]) THEN req[r].resp = {BadRequest}
                 ELSE IsEnvelope(TheOne(req[r].resp))

\* an update of an existing row by an admin failed at the accessor, the
\* database having gone down after the caller was resolved
C12_Witness ==
  \E r \in Slots :
    /\ Done(r) /\ variant = "envelope" /\ ~dbUp
    /\ req[r].op = "updateInitiative"
    /\ req[r].trace = <<"validate", "lookup", "permission", "accessor">>
    /\ \E i \in initiatives : {i.id} = req[r].raw.id
    /\ req[r].resp = {EnvelopeFailure}

\* ---------------------------------------------------------------- C13
\* why a finished mutating call failed, "none" when it did not fail for one
\* of the three reasons
FailureCategory(q) ==
  CASE q.op \notin Mutating \/ Succeeded(q.resp) -> "none"
    [] q.trace = <<"validate", "lookup">> -> "authentication"
    [] q.trace = <<"validate", "lookup", "permission">> -> "authorization"
    [] q.trace = <<"validate", "lookup", "permission", "accessor">> ->
         "persistence"
    [] OTHER -> "none"

C13_Pair(r1, r2) ==
  /\ Done(r1) /\ Done(r2)
  /\ req[r1].op = req[r2].op
  /\ FailureCategory(req[r1]) # "none"
  /\ FailureCategory(req[r2]) # "none"
  /\ FailureCategory(req[r1]) # FailureCategory(req[r2])

\* C13 as stated: two calls of one mutating procedure that fail for
\* different reasons (authentication, authorization, persistence) get the
\* same response. It fails in the throwing version, whose three errors carry
\* three messages.
C13_Original ==
  \A r1, r2 \in Slots : C13_Pair(r1, r2) => req[r1].resp = req[r2].resp

\* C13 (amended): in the envelope versions two calls of one mutating
\* procedure that fail for different reasons get the same response; in the
\* throwing version both raise an error and the two messages differ.
C13_FailuresAlikeInEnvelope ==
  \A r1, r2 \in Slots :
    C13_Pair(r1, r2)
    => IF Envelope THEN req[r1].resp = req[r2].resp
       ELSE /\ Raised(req[r1].resp) /\ Raised(req[r2].resp)
            /\ TheOne(req[r1].resp).message # TheOne(req[r2].resp).message

\* an update refused for its permissions beside one that found no row
C13_Witness ==
  \E r1, r2 \in Slots :
    /\ C13_Pair(r1, r2)
    /\ variant = "envelope"
    /\ req[r1].op = "updateInitiative"
    /\ FailureCategory(req[r1]) = "authorization"
    /\ FailureCategory(req[r2]) = "persistence"
    /\ req[r1].resp = {EnvelopeFailure}

\* ---------------------------------------------------------------- C14
\* the id the handler of a create receives from its caller
CarriedId(q) == IF variant = "envelopeId" THEN q.raw.id ELSE {}

C14_Step(r) ==
  (/\ Stepped(r)
   /\ req[r].pc = "exec"
   /\ req[r].op = "createInitiative"
   /\ Succeeded(req'[r].resp))
  => LET stored == Returned(req'[r].resp)
     IN /\ initiatives' = initiatives \cup {stored}
        /\ \A i \in initiatives : i.id # stored.id
        /\ IF CarriedId(req[r]) \notin {{}, {""}}
           THEN {stored.id} = CarriedId(req[r])
           ELSE \E n \in 1..nextUuid : stored.id = Uuid(n)

\* C14: a create that succeeds adds exactly the returned row to the table,
\* under an id no row had before: the id its input carried when that is a
\* non-empty string, and an id generated by the server otherwise (no id, an
\* empty id, or a version of the procedure whose schema has no id).
C14_CreateIdSuppliedOrGenerated == [][\A r \in Slots : C14_Step(r)]_vars

\* a create has stored a row under the id "c1" its caller chose
C14_Witness ==
  \E r \in Slots :
    /\ Done(r) /\ req[r].op = "createInitiative"
    /\ variant = "envelopeId"
    /\ req[r].raw.id = {"c1"}
    /\ Succeeded(req[r].resp)
    /\ Returned(req[r].resp).id = "c1"
    /\ Returned(req[r].resp) \in initiatives

\* ---------------------------------------------------------------- C16
\* C16: the User table is the same in every reachable state, and no step of
\* a procedure, of a user read or of the session callback changes it.
C16_UsersNeverWritten ==
  /\ [](users = {AdminUser, MemberUser})
  /\ [][users' = users]_vars

\* the session callback resolved a user while a delete was answered
C16_Witness ==
  /\ userRead.op = "session"
  /\ ~userRead.result.threw
  /\ \E r \in Slots :
       Done(r) /\ req[r].op = "deleteInitiative" /\ CallerIsAdmin(r)

\* ---------------------------------------------------------------- C17
Listed == userRead.result.value

\* C17 as stated: every record of the secure listing has the secret and not
\* the password. It fails: the select marks the secret false.
C17_Original ==
  userRead.op = "getAllUsersSecure" =>
    /\ Len(Listed) = Cardinality(users)
    /\ \A i \in 1..Len(Listed) :
         /\ "password" \notin DOMAIN Listed[i]
         /\ "secret" \in DOMAIN Listed[i]

\* C17 (amended): the secure listing has one record for every user, with
\* the user's id, name, email, image, permissions and roles, and with
\* neither the password nor the secret.
C17_ListingHidesPasswordAndSecret ==
  userRead.op = "getAllUsersSecure" =>
    /\ Len(Listed) = Cardinality(users)
    /\ \A u \in users : \E i \in 1..Len(Listed) :
         /\ DOMAIN Listed[i] \cap {"password", "secret"} = {}
         /\ \A c \in {"id", "name", "email", "image", "permissions", "roles"} :
              c \in DOMAIN Listed[i] /\ Listed[i][c] = u[c]

\* both users were listed
C17_Witness ==
  /\ userRead.op = "getAllUsersSecure"
  /\ Len(Listed) = 2
  /\ \E i \in 1..2 : Listed[i].email = "admin@socis.ca"

\* ---------------------------------------------------------------- C19
\* where the last two labels of a hostname start: after its last dot but
\* one, or at its first character
LastTwoFrom(host) ==
  LET dots == {i \in 1..Len(host) : host[i] = "."}
      before == {i \in dots : \E j \in dots : j > i}
  IN IF before = {} THEN 1
     ELSE 1 + (CHOOSE i \in before : \A j \in before : j <= i)

\* C19: the session-token cookie has as domain a dot followed by the last
\* two labels of the hostname of NEXTAUTH_URL (the whole hostname when it
\* has fewer, "localhost" when the variable is unset), httpOnly true,
\* sameSite lax, secure exactly when NODE_ENV is not "development", and the
\* name next-auth.session-token with the __Secure- prefix exactly when
\* secure.
C19_CookieConfiguration ==
  \A c \in cookie :
    LET host == IF env.NEXTAUTH_URL = {}
                THEN <<"l", "o", "c", "a", "l", "h", "o", "s", "t">>
                ELSE TheOne(env.NEXTAUTH_URL).hostname
    IN /\ c.domain
            = "." \o Text(SubSeq(host, LastTwoFrom(host), Len(host)))
       /\ c.httpOnly = TRUE
       /\ c.sameSite = "lax"
       /\ c.secure = (env.NODE_ENV # {"development"})
       /\ c.name = IF c.secure THEN "__Secure-next-auth.session-token"
                   ELSE "next-auth.session-token"

\* a three-label hostname in development: domain .a.b, no Secure flag
C19_Witness ==
  /\ env.NODE_ENV = {"development"}
  /\ env.NEXTAUTH_URL
       = {[protocol |-> "https", hostname |-> <<"b", ".", "a", ".", "b">>]}
  /\ cookie # {}
  /\ TheOne(cookie).domain = ".a.b"
  /\ TheOne(cookie).name = "next-auth.session-token"

\* ---------------------------------------------------------------- C18
\* C18: once the call of a submission has settled, the status of the page
\* or button is success when the response says success: true, and error
\* when it says success: false or the call was rejected.
C18_Original ==
  client.page \in {"create", "update", "delete"} =>
    \A resp \in client.settled :
      client.status = IF resp.type = "data" /\ resp.success = {TRUE}
                      THEN "success" ELSE "error"

\* ---------------------------------------------------------------- C20
FetchFailed ==
  /\ client.page = "update"
  /\ \E resp \in client.fetched :
       resp.type = "error" \/ resp.initiative = {}

\* C20: on the update page a fetch of the initiative that was rejected or
\* returned no initiative leads to the fetch-error message being rendered.
C20_Original == FetchFailed ~> (View(client) = "fetch-error")

\* ---------------------------------------------------------------- C21
\* C21: once the delete handler of the card's modal has finished, the
\* status is success only if the deleteInitiative call resolved, and error
\* if it was rejected.
C21_Original ==
  client.page = "card" =>
    \A resp \in client.settled :
      /\ client.status = "success" => resp.type = "data"
      /\ resp.type = "error" => client.status = "error"

\* ---------------------------------------------------------------- C22
\* the step of a submission: the form is shown and the page changes while
\* the form's content stays
Submits ==
  /\ client.page \in {"create", "update"}
  /\ View(client) = "form" /\ client.status # "success"
  /\ client' # client
  /\ client'.initiative = client.initiative

\* C22: on the create and the update form a submission whose data fails
\* isValidInitiativeData starts no call and ends with the status
\* empty_fields; a createInitiative or updateInitiative call in flight
\* always carries data that passes isValidInitiativeData.
C22_InvalidSubmissionCallsNothing ==
  /\ [](\A c \in client.call :
          c.op \in {"createInitiative", "updateInitiative"}
          => isValidInitiativeData(c.initiative))
  /\ [][(Submits /\ ~isValidInitiativeData(client.initiative))
        => /\ client'.call = {}
           /\ client'.status = "empty_fields"]_vars

\* the update form was submitted with its name field cleared
C22_Witness ==
  /\ client.page = "update"
  /\ client.status = "empty_fields"
  /\ client.call = {}
  /\ \E i \in client.initiative : i.name = "" /\ i.id = "c1"

\* ---------------------------------------------------------------- C23
\* the input a form's content makes on the wire
Wire(i) ==
  [accessToken |-> "secret-admin", id |-> {"c1"}, name |-> i.name,
   description |-> i.description, image |-> {i.image}]

\* C23: once a form was submitted, the client validator has let its
\* content pass (the status is loading and not empty_fields) exactly when
\* the input schemas of createInitiative and updateInitiative accept its
\* name and description, which is exactly when the name has 1 to 50
\* characters and the description 1 to 100.
C23_ValidatorAgreesWithSchema ==
  \A i \in client.initiative :
    (client.settled = {} /\ client.status \in {"loading", "empty_fields"})
    => /\ (client.status = "loading")
            = SchemaAccepts("createInitiative", Wire(i))
       /\ (client.status = "loading")
            = SchemaAccepts("updateInitiative", Wire(i))
       /\ (client.status = "loading")
            = (NameInRange(i.name) /\ DescriptionInRange(i.description))

\* a name of 51 characters with a description of 100 was refused
C23_Witness ==
  /\ client.page = "create"
  /\ client.status = "empty_fields"
  /\ \E i \in client.initiative :
       Len(i.name) = 51 /\ Len(i.description) = 100

\* ---------------------------------------------------------------- C24
C24_Step(r) ==
  /\ Accesses(r, "updateInitiative")
  /\ CallerIsAdmin(r)
  /\ ~Present(TheOne(req[r].raw.id))

\* C24: an update by an ADMIN caller of an id that is not in the table when
\* the update reaches the accessor (never created, or deleted before, also
\* by a delete that ran between the update's caller lookup and its write)
\* leaves the table as it is and reports failure: the failure envelope, or
\* a raised error in the throwing version.
C24_UpdateNeverCreates ==
  [][\A r \in Slots :
       C24_Step(r)
       => /\ initiatives' = initiatives
          /\ ~Succeeded(req'[r].resp)
          /\ IF variant = "throw" THEN Raised(req'[r].resp)
             ELSE req'[r].resp = {EnvelopeFailure}]_vars

\* an update that began first found its row deleted by a delete that began
\* after it
C24_Witness ==
  /\ Done(1) /\ req[1].op = "updateInitiative"
  /\ req[1].trace = Protocol
  /\ req[1].resp = {EnvelopeFailure}
  /\ Done(2) /\ req[2].op = "deleteInitiative"
  /\ Succeeded(req[2].resp)
  /\ Returned(req[2].resp).id = TheOne(req[1].raw.id)
  /\ initiatives = {}

\* ---------------------------------------------------------------- C25
C25_Step(r) ==
  /\ Accesses(r, "createInitiative")
  /\ Present(TheOne(req[r].generatedId))

\* C25: no reachable table holds two initiatives of one id, whatever the
\* interleaving; a create whose id is in the table when it reaches the
\* accessor (also an id that a concurrent create of the same client id has
\* just stored) leaves the table, and so the stored record, as it is and
\* reports failure.
C25_IdsStayUnique ==
  /\ [](\A i, j \in initiatives : i.id = j.id => i = j)
  /\ [][\A r \in Slots :
          C25_Step(r)
          => /\ initiatives' = initiatives
             /\ ~Succeeded(req'[r].resp)
             /\ IF variant = "throw" THEN Raised(req'[r].resp)
                ELSE req'[r].resp = {EnvelopeFailure}]_vars

\* two overlapping creates of the client id "c1": the second to reach the
\* accessor lost
C25_Witness ==
  /\ variant = "envelopeId"
  /\ \A r \in {1, 2} :
       /\ Done(r) /\ req[r].op = "createInitiative"
       /\ req[r].raw.id = {"c1"}
       /\ req[r].trace = Protocol
  /\ \E r \in {1, 2} : Succeeded(req[r].resp)
  /\ \E r \in {1, 2} : req[r].resp = {EnvelopeFailure}
  /\ Cardinality(initiatives) = 1

\* ---------------------------------------------------------------- C26
\* the step in which slot r's call of op writes and succeeds
Writes(r, op) == Accesses(r, op) /\ Succeeded(req'[r].resp)

\* the table changes in the one row of the id, of which an update changes
\* the given columns and no other
OneRowUpdated(id, columns) ==
  \E old \in initiatives : \E new \in initiatives' :
    /\ old.id = id /\ new.id = id
    /\ initiatives' \ {new} = initiatives \ {old}
    /\ \A c \in DOMAIN old \ columns : new[c] = old[c]

C26_CreateAndDelete(r) ==
  /\ Writes(r, "createInitiative")
     => \E new \in initiatives' :
          /\ \A i \in initiatives : i.id # new.id
          /\ initiatives' = initiatives \cup {new}
  /\ Writes(r, "deleteInitiative")
     => \E old \in initiatives :
          /\ old.id = TheOne(req[r].raw.id)
          /\ initiatives' = initiatives \ {old}
          /\ \A i \in initiatives' : i.id # old.id
  /\ (Stepped(r) /\ Moving(r).op \in Mutating) => users' = users

\* C26 as stated: a successful create adds one record, a successful delete
\* removes the record of the id and no other, and a successful update
\* changes the name, description and image of the record of the id and
\* nothing else. It fails for the update: the database sets the record's
\* updatedAt as well.
C26_Original ==
  [][\A r \in Slots :
       /\ C26_CreateAndDelete(r)
       /\ Writes(r, "updateInitiative")
          => OneRowUpdated(TheOne(req[r].raw.id),
                           {"name", "description", "image"})]_vars

\* C26 (amended): a successful create adds one record, a successful delete
\* removes the record of the id and no other, and a successful update
\* changes, in the record of the id, the name, the description, the image
\* and the updatedAt stamp the database maintains, and nothing else: the id
\* stays, every other record stays, and no user is written.
C26_OneRecordPerWrite ==
  [][\A r \in Slots :
       /\ C26_CreateAndDelete(r)
       /\ Writes(r, "updateInitiative")
          => /\ OneRowUpdated(TheOne(req[r].raw.id),
                              {"name", "description", "image", "updatedAt"})
             /\ \A old \in initiatives : \A new \in initiatives' :
                  (old.id = TheOne(req[r].raw.id) /\ new.id = old.id)
                  => new.updatedAt # old.updatedAt]_vars

\* an update of one of two records has succeeded
C26_Witness ==
  \E r \in Slots :
    /\ Done(r) /\ req[r].op = "updateInitiative"
    /\ Succeeded(req[r].resp)
    /\ Returned(req[r].resp).updatedAt = 1
    /\ Returned(req[r].resp) \in initiatives
    /\ Cardinality(initiatives) = 2

\* ---------------------------------------------------------------- C27
\* a successful delete leaves no row of its id
C27_DeleteRemoves(r) ==
  Writes(r, "deleteInitiative")
  => \A i \in initiatives' : i.id # TheOne(req[r].raw.id)

\* an id enters the table only with a successful create of that id
C27_OnlyCreateRestores ==
  \A new \in initiatives' :
    ~Present(new.id)
    => \E r \in Slots :
         /\ Writes(r, "createInitiative")
         /\ Returned(req'[r].resp).id = new.id

\* while an id is not in the table getInitiative fails on it and
\* getAllInitiatives lists no row of it
C27_ReadsOfAbsentId(r) ==
  /\ (Accesses(r, "getInitiative") /\ ~Present(TheOne(req[r].raw.id)))
     => /\ ~Succeeded(req'[r].resp)
        /\ IF variant = "throw" THEN Raised(req'[r].resp)
           ELSE req'[r].resp = {EnvelopeFailure}
  /\ Accesses(r, "getAllInitiatives")
     => \A list \in TheOne(req'[r].resp).initiatives :
          \A i \in list : Present(i.id)

\* C27: after a successful deleteInitiative(id) every getInitiative(id)
\* reports failure and no getAllInitiatives contains the id, until a later
\* createInitiative of that id succeeds. In steps: the delete leaves the
\* table without the id, only a successful create of the id brings it back,
\* and a read made while the id is absent does not find it.
C27_DeletedStaysGone ==
  [][/\ C27_OnlyCreateRestores
     /\ \A r \in Slots : C27_DeleteRemoves(r) /\ C27_ReadsOfAbsentId(r)]_vars

\* the third call, a getInitiative of the generated id, failed: the first
\* call had created that id and the second had deleted it
C27_Witness ==
  /\ variant = "envelope"
  /\ calls = 3 /\ nextUuid = 1 /\ initiatives = {}
  /\ \E r \in Slots :
       /\ Done(r) /\ req[r].op = "getInitiative"
       /\ req[r].raw.id = {Uuid(1)}
       /\ req[r].resp = {EnvelopeFailure}

\* ---------------------------------------------------------------- C28
\* what getAllInitiatives answers on an empty table: the list is empty and,
\* in the routers that answer with an envelope, success is true
EmptyListing(flag) ==
  [type |-> "data", success |-> flag, initiative |-> {},
   initiatives |-> {{}}, message |-> ""]

\* the call never raises, lists the table while the database answers, and
\* answers a failed query as it answers an empty table
C28_ListsOrEmpty(r, flag) ==
  Accesses(r, "getAllInitiatives")
  => /\ req'[r].resp # {} /\ ~Raised(req'[r].resp)
     /\ TheOne(req'[r].resp).success = flag
     /\ dbUp => TheOne(req'[r].resp).initiatives = {initiatives}
     /\ (~dbUp \/ initiatives = {}) => req'[r].resp = {EmptyListing(flag)}

\* C28 as stated: getAllInitiatives always returns success:true, and when
\* the query fails it returns {success: true, initiatives: []}, the response
\* it gives on an empty table. It fails in the throwing router, whose
\* getAllInitiatives returns { initiatives } and no success field.
C28_Original ==
  [][\A r \in Slots : C28_ListsOrEmpty(r, {TRUE})]_vars

\* C28 (amended): getAllInitiatives never fails. In the envelope routers
\* it always returns success:true, in the throwing router the list alone;
\* in each of them a failed query is answered with the empty list, exactly
\* as an empty table is.
C28_FailureLooksLikeEmptyTable ==
  [][\A r \in Slots :
       C28_ListsOrEmpty(r, IF Envelope THEN {TRUE} ELSE {})]_vars

\* one initiative was created, the database went down, and the listing
\* asked for next came back empty with success:true
C28_Witness ==
  /\ variant = "envelopeId"
  /\ calls = 3 /\ ~dbUp /\ initiatives # {}
  /\ \E r \in Slots :
       /\ Done(r) /\ req[r].op = "getAllInitiatives"
       /\ req[r].resp = {EmptyListing({TRUE})}

\* ---------------------------------------------------------------- C29
\* the input of the call names no image: the field is absent or empty
NoImage(r) == req[r].raw.image = {} \/ req[r].raw.image = {""}

C29_Step(r) ==
  Writes(r, "updateInitiative")
  => /\ \E new \in initiatives' : new.id = TheOne(req[r].raw.id)
     /\ \A old \in initiatives : \A new \in initiatives' :
          (old.id = TheOne(req[r].raw.id) /\ new.id = old.id)
          => /\ NoImage(r)
                => new.image = "/images/default-initiative-image.png"
             /\ ~NoImage(r) => new.image = TheOne(req[r].raw.image)
             /\ Returned(req'[r].resp).image = new.image

\* C29: a successful updateInitiative whose input has no image, or an empty
\* one, stores the configured default image whatever image the record had
\* before; a non-empty input image is stored as given.
C29_UpdateImageDefaultsOrStored ==
  [][\A r \in Slots : C29_Step(r)]_vars

\* a record was created and then updated once, without an image: it now
\* has the default image
C29_Witness ==
  /\ calls = 2
  /\ \E r \in Slots :
       /\ Done(r) /\ req[r].op = "updateInitiative"
       /\ Succeeded(req[r].resp)
       /\ req[r].raw.image = {}
       /\ \E i \in initiatives :
            /\ i.id = TheOne(req[r].raw.id)
            /\ i.updatedAt = 1
            /\ i.image = "/images/default-initiative-image.png"

\* ---------------------------------------------------------------- C30
\* The two routers side by side: beside the step the deployed router takes
\* stands the step the other router takes from the same state on the same
\* request. Both start from the same state, so if every pair of steps ends
\* in the same state the two runs stay in the same state throughout.
Other == IF variant = "throw" THEN "envelope" ELSE "throw"

\* the last version is compared on creates that carry no client id
SideBySide(q) ==
  variant = "envelopeId" => (q.op = "createInitiative" => q.raw.id = {})

\* a response of the throwing router and one of an envelope router say the
\* same: the first is an error exactly when the second is success:false,
\* and they carry the same record or list
SameOutcome(thrown, envelope) ==
  /\ thrown.type = "error"
     <=> (envelope.type = "data" /\ envelope.success = {FALSE})
  /\ thrown.initiative = envelope.initiative
  /\ thrown.initiatives = envelope.initiatives

Agree(mine, other) ==
  IF variant = "throw" THEN SameOutcome(mine, other)
  ELSE SameOutcome(other, mine)

\* the other router's guards on the request of slot r
OtherLookup(r) ==
  LET in == Parsed(Other, req[r].op, req[r].raw)
      user == getUserBySecretNoPassword(TheOne(in.accessToken))
      out == Rejection(Other, user)
      fresh == req[r].op = "createInitiative" /\ out = {} /\ CallsUuid(in)
  IN [resp |-> out,
      generatedId |-> IF req[r].op = "createInitiative" /\ out = {}
                      THEN IF fresh THEN {Uuid(nextUuid + 1)} ELSE in.id
                      ELSE {},
      nextUuid |-> IF fresh THEN nextUuid + 1 ELSE nextUuid]

\* the other router's accessor call and return on the request of slot r
OtherAccess(r) ==
  LET in == Parsed(Other, req[r].op, req[r].raw)
      id == TheOne(in.id)
      created == createInitiative(CreateData(in, TheOne(req[r].generatedId)))
      deleted == deleteInitiativeById(id)
      updated == updateInitiativeById(id, UpdateData(in))
  IN CASE req[r].op = "createInitiative" ->
            [table |-> initiatives \cup created,
             resp |-> CreateResponse(Other, created)]
       [] req[r].op = "deleteInitiative" ->
            [table |-> initiatives \ deleted,
             resp |-> DeleteResponse(Other, deleted)]
       [] req[r].op = "updateInitiative" ->
            [table |-> IF updated = {} THEN initiatives
                       ELSE {i \in initiatives : i.id # id} \cup updated,
             resp |-> UpdateResponse(Other, updated)]
       [] req[r].op = "getAllInitiatives" ->
            [table |-> initiatives,
             resp |-> Listing(Other, getAllInitiatives)]
       [] OTHER ->
            [table |-> initiatives,
             resp |-> GetResponse(Other, getInitiativeById(id))]

\* the handlers agree: on the guards, on the id generated, on the table
\* written and on the outcome reported
C30_Handlers(r) ==
  /\ (req[r].pc = "lookup" /\ Stepped(r) /\ SideBySide(req[r]))
     => LET other == OtherLookup(r)
        IN /\ initiatives' = initiatives
           /\ req'[r].generatedId = other.generatedId
           /\ nextUuid' = other.nextUuid
           /\ (req'[r].resp = {}) <=> (other.resp = {})
           /\ req'[r].resp # {}
              => Agree(TheOne(req'[r].resp), TheOne(other.resp))
  /\ (req[r].pc = "exec" /\ Stepped(r) /\ SideBySide(req[r]))
     => LET other == OtherAccess(r)
        IN /\ initiatives' = other.table
           /\ nextUuid' = nextUuid
           /\ Agree(TheOne(req'[r].resp), other.resp)

\* the step in which tRPC turns the request of slot r down
SchemaTurnsDown(r) == req[r].pc = "idle" /\ req'[r].pc = "done"

SpecAny == (Init \/ InitConc) /\ [][Next]_vars

====
